---- MODULE Spec2Model ----
(***************************************************************************)
(* The evaluator of prim (src/prim/eval.py) as an abstract machine.        *)
(*                                                                         *)
(* The Python code is a recursive tree walk.  The machine keeps the        *)
(* recursion explicit: `stack` holds the activations of _eval_if and       *)
(* _eval_call that wait for a sub-evaluation, `ctrl` is what the innermost *)
(* call is doing (evaluating an expression, returning a value, raising),   *)
(* `frames` is the heap of Frame objects (index 1 is base_env()).          *)
(*                                                                         *)
(* Dynamic types are tags: a host int is Integer(i), a host float is       *)
(* Float(n, d) (the exact rational n/d; every float the bounded programs   *)
(* produce is dyadic, hence exact), a host bool is Boolean(b), a host str  *)
(* is String(s).  isinstance keeps the host's meaning: bool is a subclass  *)
(* of int.                                                                 *)
(***************************************************************************)
EXTENDS Integers, Sequences, FiniteSets, TLC

VARIABLES prog, ctrl, stack, frames, outcome, trace, event

vars == <<prog, ctrl, stack, frames, outcome, trace, event>>

(***************************************************************************)
(* Bounds.                                                                 *)
(***************************************************************************)
\* Activations of _eval_if/_eval_call the host call stack holds before the
\* host raises RecursionError.
MaxDepth == 6

\* Arguments of a builtin call, over every kind of value
MaxArgs == 2

\* Arguments of a call whose sub-expressions may fail
MaxCallArgs == 3

\* Parameters and arguments of a closure call
MaxParams == 3

\* Condition/consequent pairs of an if
MaxConds == 2

(***************************************************************************)
(* AST nodes (prim.ast, read only by the evaluator).                       *)
(***************************************************************************)
IntLiteral(v) == [type |-> "IntLiteral", value |-> v]

FloatLiteral(n, d) == [type |-> "FloatLiteral", value |-> <<n, d>>]

StringLiteral(s) == [type |-> "StringLiteral", value |-> s]

SymbolLiteral(s) == [type |-> "SymbolLiteral", value |-> s]

LambdaExpr(params, body) == [type |-> "LambdaExpr", params |-> params, body |-> body]

IfExpr(conditions, consequents, alternative) ==
    [type |-> "IfExpr", conditions |-> conditions, consequents |-> consequents,
     alternative |-> alternative]

CallExpr(operator, args) == [type |-> "CallExpr", operator |-> operator, args |-> args]

\* A node outside the seven variants.
OtherExpr == [type |-> "OtherExpr"]

KeywordTRUE == "true"

KeywordFALSE == "false"

(***************************************************************************)
(* Values.                                                                 *)
(***************************************************************************)
Abs(x) == IF x < 0 THEN -x ELSE x

RECURSIVE GCD(_, _)
GCD(a, b) == IF b = 0 THEN a ELSE GCD(b, a % b)

Integer(i) == [kind |-> "Integer", i |-> i]

\* d # 0; kept in lowest terms with a positive denominator
Float(n, d) ==
    LET g == GCD(Abs(n), Abs(d))
        s == IF d < 0 THEN -1 ELSE 1
    IN  [kind |-> "Float", n |-> (s * n) \div g, d |-> (s * d) \div g]

Boolean(b) == [kind |-> "Boolean", b |-> b]

String(s) == [kind |-> "String", s |-> s]

Builtin(variant, name) == [kind |-> "Builtin", variant |-> variant, name |-> name]

Closure(params, body, env) ==
    [kind |-> "Closure", params |-> params, body |-> body, env |-> env]

\* Python's None: the absent result of Frame.get
None == [kind |-> "None"]

\* isinstance(v, int): bool is a subclass of int in the host
isinstance_int(v) == v.kind \in {"Integer", "Boolean"}

isinstance_float(v) == v.kind = "Float"

isinstance_bool(v) == v.kind = "Boolean"

isinstance_str(v) == v.kind = "String"

isinstance_Builtin(v) == v.kind = "Builtin"

isinstance_Closure(v) == v.kind = "Closure"

\* The host's truth value of an object (the `if` of _eval_if)
Truthy(v) ==
    CASE v.kind = "Integer" -> v.i # 0
      [] v.kind = "Float"   -> v.n # 0
      [] v.kind = "Boolean" -> v.b
      [] v.kind = "String"  -> v.s # ""
      [] OTHER              -> TRUE

(***************************************************************************)
(* Failures.  The code raises RuntimeError(message); `kind` is the entry   *)
(* of the failure taxonomy the raise site stands for, `msg` what the       *)
(* message carries.  The host's own exceptions keep their names.           *)
(***************************************************************************)
Failure(kind, msg) == [kind |-> kind, msg |-> msg]

Taxonomy ==
    {"UndefinedIdentifier", "UnsupportedExpression", "NotCallable",
     "ArityMismatch", "TypeMismatch"}

Returned(v) == [ok |-> TRUE, val |-> v]

Raised(kind, msg) == [ok |-> FALSE, err |-> Failure(kind, msg)]

(***************************************************************************)
(* Builtins.                                                               *)
(***************************************************************************)
\* the numeric value of an int, bool or float operand, as a rational
Num(v) ==
    CASE v.kind = "Integer" -> <<v.i, 1>>
      [] v.kind = "Boolean" -> <<IF v.b THEN 1 ELSE 0, 1>>
      [] v.kind = "Float"   -> <<v.n, v.d>>

\* int op int is an int, anything with a float is a float
Promote(a, b, n, d) ==
    IF isinstance_float(a) \/ isinstance_float(b) THEN Float(n, d) ELSE Integer(n \div d)

Less(a, b) == Num(a)[1] * Num(b)[2] < Num(b)[1] * Num(a)[2]

Equal(a, b) == Num(a)[1] * Num(b)[2] = Num(b)[1] * Num(a)[2]

\* operator.fn(a, b): the lambdas of the registry, on host values
fn(name, a, b) ==
    CASE name = "+"  ->
            Returned(Promote(a, b, Num(a)[1] * Num(b)[2] + Num(b)[1] * Num(a)[2],
                             Num(a)[2] * Num(b)[2]))
      [] name = "-"  ->
            Returned(Promote(a, b, Num(a)[1] * Num(b)[2] - Num(b)[1] * Num(a)[2],
                             Num(a)[2] * Num(b)[2]))
      [] name = "*"  ->
            Returned(Promote(a, b, Num(a)[1] * Num(b)[1], Num(a)[2] * Num(b)[2]))
      [] name = "/"  ->
            IF Num(b)[1] = 0
            THEN Raised("ZeroDivisionError", "division by zero")
            ELSE Returned(Float(Num(a)[1] * Num(b)[2], Num(a)[2] * Num(b)[1]))
      [] name = "="  -> Returned(Boolean(Equal(a, b)))
      [] name = "<"  -> Returned(Boolean(Less(a, b)))
      [] name = ">"  -> Returned(Boolean(Less(b, a)))
      [] name = "<=" -> Returned(Boolean(~Less(b, a)))
      [] name = ">=" -> Returned(Boolean(~Less(a, b)))
      [] name = "and" -> Returned(Boolean(a.b /\ b.b))
      [] name = "or"  -> Returned(Boolean(a.b \/ b.b))
      [] name = "++"  -> Returned(String(a.s \o b.s))

\* operator.fn(a) of BoolToBool
fn1(name, a) == Returned(Boolean(~a.b))

BuiltinNames ==
    {"+", "-", "*", "/", "=", "<", ">", "<=", ">=", "and", "or", "not", "++"}

BUILTINS ==
    [name \in BuiltinNames |->
        CASE name \in {"+", "-", "*", "/"}       -> Builtin("NumberNumberToNumber", name)
          [] name \in {"=", "<", ">", "<=", ">="} -> Builtin("NumberNumberToBool", name)
          [] name \in {"and", "or"}              -> Builtin("BoolBoolToBool", name)
          [] name = "not"                        -> Builtin("BoolToBool", name)
          [] name = "++"                         -> Builtin("StringStringToString", name)]

(***************************************************************************)
(* Environment.                                                            *)
(***************************************************************************)
\* parent = 0 is None
Frame(bindings, parent) == [bindings |-> bindings, parent |-> parent]

base_env == Frame(BUILTINS, 0)

\* Frame.get gone wrong: the parent's binding wins over the local one
RECURSIVE get_outermost(_, _, _)
get_outermost(fs, f, name) ==
    LET up == IF fs[f].parent # 0 THEN get_outermost(fs, fs[f].parent, name) ELSE None
    IN  IF up # None THEN up
        ELSE IF name \in DOMAIN fs[f].bindings THEN fs[f].bindings[name]
        ELSE None

\* Frame.get, on the frame at index f of the heap fs
RECURSIVE get(_, _, _)
get(fs, f, name) ==
    IF name \in DOMAIN fs[f].bindings
    THEN fs[f].bindings[name]
    ELSE IF fs[f].parent # 0
         THEN get(fs, fs[f].parent, name)
         ELSE None

(***************************************************************************)
(* Evaluation: the pure parts of the handlers.                             *)
(***************************************************************************)
\* _eval_expr on IntLiteral, FloatLiteral, StringLiteral
eval_literal(expr) ==
    CASE expr.type = "IntLiteral"    -> Integer(expr.value)
      [] expr.type = "FloatLiteral"  -> Float(expr.value[1], expr.value[2])
      [] expr.type = "StringLiteral" -> String(expr.value)

\* _eval_expr on LambdaExpr: the closure captures the current frame
eval_lambda(expr, env) == Closure(expr.params, expr.body, env)

\* _eval_symbol gone wrong: the frame chain is consulted before the keywords
_eval_symbol_envfirst(expr, fs, env) ==
    LET value == IF env = 0 THEN None ELSE get(fs, env, expr.value)
    IN  IF value # None THEN Returned(value)
        ELSE IF expr.value = KeywordTRUE THEN Returned(Boolean(TRUE))
        ELSE IF expr.value = KeywordFALSE THEN Returned(Boolean(FALSE))
        ELSE Raised("UndefinedIdentifier", expr.value)

_eval_symbol(expr, fs, env) ==
    IF expr.value = KeywordTRUE THEN Returned(Boolean(TRUE))
    ELSE IF expr.value = KeywordFALSE THEN Returned(Boolean(FALSE))
    ELSE IF env = 0 THEN Raised("UndefinedIdentifier", expr.value)
    ELSE LET value == get(fs, env, expr.value)
         IN  IF value = None
             THEN Raised("UndefinedIdentifier", expr.value)
             ELSE Returned(value)

Min(a, b) == IF a < b THEN a ELSE b

\* zip(expr.conditions, expr.consequents): the pairs the loop of _eval_if visits
zip_len(expr) == Min(Len(expr.conditions), Len(expr.consequents))

\* The loop of _eval_if gone wrong: it does not stop at a truthy condition
\* while conditions are left
_eval_if_next_eager(expr, i, val) ==
    IF i < zip_len(expr) THEN [role |-> "condition", idx |-> i + 1]
    ELSE IF Truthy(val) THEN [role |-> "consequent", idx |-> i]
    ELSE [role |-> "alternative", idx |-> 0]

\* The loop of _eval_if once condition i has returned val: what it evaluates next
_eval_if_next(expr, i, val) ==
    IF Truthy(val) THEN [role |-> "consequent", idx |-> i]
    ELSE IF i < zip_len(expr) THEN [role |-> "condition", idx |-> i + 1]
    ELSE [role |-> "alternative", idx |-> 0]

\* _eval_call gone wrong: an operator that is not callable is rejected before
\* the arguments are evaluated
_eval_call_next_eager(expr, operator, nargs) ==
    IF ~isinstance_Builtin(operator) /\ ~isinstance_Closure(operator)
    THEN [role |-> "dispatch", idx |-> 0]
    ELSE IF nargs < Len(expr.args) THEN [role |-> "argument", idx |-> nargs + 1]
    ELSE [role |-> "dispatch", idx |-> 0]

\* _eval_call once the operator and nargs arguments are evaluated: the next
\* argument of the list comprehension, or the dispatch
_eval_call_next(expr, operator, nargs) ==
    IF nargs < Len(expr.args) THEN [role |-> "argument", idx |-> nargs + 1]
    ELSE [role |-> "dispatch", idx |-> 0]

Checked(r) == [res |-> r, invoked |-> FALSE]

Invoked(r) == [res |-> r, invoked |-> TRUE]

\* _eval_call_builtin gone wrong: the number variants check the operand
\* types before the argument count
_eval_call_builtin_typefirst(operator, args) ==
    IF operator.variant \in {"NumberNumberToNumber", "NumberNumberToBool"} THEN
        IF \E i \in 1..Len(args) : ~isinstance_int(args[i]) /\ ~isinstance_float(args[i])
        THEN Checked(Raised("TypeMismatch", "Expected 2 number arguments"))
        ELSE IF Len(args) # 2 THEN Checked(Raised("ArityMismatch", "Expected 2 arguments"))
        ELSE Invoked(fn(operator.name, args[1], args[2]))
    ELSE IF operator.variant \in {"BoolBoolToBool", "BoolToBool"} THEN
        IF Len(args) # (IF operator.variant = "BoolToBool" THEN 1 ELSE 2)
        THEN Checked(Raised("ArityMismatch", "Expected arguments"))
        ELSE IF \E i \in 1..Len(args) : ~isinstance_bool(args[i])
        THEN Checked(Raised("TypeMismatch", "Expected 2 boolean arguments"))
        ELSE IF Len(args) = 1 THEN Invoked(fn1(operator.name, args[1]))
        ELSE Invoked(fn(operator.name, args[1], args[2]))
    ELSE
        IF Len(args) # 2 THEN Checked(Raised("ArityMismatch", "Expected 2 arguments"))
        ELSE IF ~isinstance_str(args[1]) \/ ~isinstance_str(args[2])
        THEN Checked(Raised("TypeMismatch", "Expected 2 string arguments"))
        ELSE Invoked(fn(operator.name, args[1], args[2]))

_eval_call_builtin(operator, args) ==
    IF operator.variant \in {"NumberNumberToNumber", "NumberNumberToBool"} THEN
        IF Len(args) # 2 THEN Checked(Raised("ArityMismatch", "Expected 2 arguments"))
        ELSE IF \/ (~isinstance_int(args[1]) /\ ~isinstance_float(args[1]))
                \/ (~isinstance_int(args[2]) /\ ~isinstance_float(args[2]))
        THEN Checked(Raised("TypeMismatch", "Expected 2 number arguments"))
        ELSE Invoked(fn(operator.name, args[1], args[2]))
    ELSE IF operator.variant = "BoolBoolToBool" THEN
        IF Len(args) # 2 THEN Checked(Raised("ArityMismatch", "Expected 2 arguments"))
        ELSE IF ~isinstance_bool(args[1]) \/ ~isinstance_bool(args[2])
        THEN Checked(Raised("TypeMismatch", "Expected 2 boolean arguments"))
        ELSE Invoked(fn(operator.name, args[1], args[2]))
    ELSE IF operator.variant = "BoolToBool" THEN
        IF Len(args) # 1 THEN Checked(Raised("ArityMismatch", "Expected 1 arguments"))
        ELSE IF ~isinstance_bool(args[1])
        THEN Checked(Raised("TypeMismatch", "Expected 2 boolean arguments"))
        ELSE Invoked(fn1(operator.name, args[1]))
    ELSE IF operator.variant = "StringStringToString" THEN
        IF Len(args) # 2 THEN Checked(Raised("ArityMismatch", "Expected 2 arguments"))
        ELSE IF ~isinstance_str(args[1]) \/ ~isinstance_str(args[2])
        THEN Checked(Raised("TypeMismatch", "Expected 2 string arguments"))
        ELSE Invoked(fn(operator.name, args[1], args[2]))
    ELSE Checked(Raised("NotCallable", "Unsupported operator"))

Last(S) == CHOOSE i \in S : \A j \in S : j <= i

\* {param: arg for param, arg in zip(params, args)}: a later pair replaces an
\* earlier one of the same name
bindings_of(params, args) ==
    LET n == Min(Len(params), Len(args))
    IN  [p \in {params[i] : i \in 1..n} |-> args[Last({i \in 1..n : params[i] = p})]]

\* _eval_call_closure gone wrong: the call frame extends the base frame, not
\* the frame the closure captured
_eval_call_closure_flat(operator, args) ==
    IF Len(args) # Len(operator.params)
    THEN [ok |-> FALSE, err |-> Failure("ArityMismatch", "Argument count mismatch")]
    ELSE [ok |-> TRUE, child_env |-> Frame(bindings_of(operator.params, args), 1)]

\* _eval_call_closure up to the evaluation of the body: the failure, or the
\* child frame the body is evaluated in
_eval_call_closure(operator, args) ==
    IF Len(args) # Len(operator.params)
    THEN [ok |-> FALSE, err |-> Failure("ArityMismatch", "Argument count mismatch")]
    ELSE [ok |-> TRUE, child_env |-> Frame(bindings_of(operator.params, args), operator.env)]

(***************************************************************************)
(* The machine.                                                            *)
(***************************************************************************)
Evaluate(expr, env) == [mode |-> "eval", expr |-> expr, env |-> env]

Return(val) == [mode |-> "return", val |-> val]

Raise(err) == [mode |-> "raise", err |-> err]

Dispatch == [mode |-> "dispatch"]

Halt == [mode |-> "halt"]

\* what a handler hands to its caller: its value, or its exception
Deliver(r) == IF r.ok THEN Return(r.val) ELSE Raise(r.err)

NoEvent == [type |-> "none"]

\* a sub-evaluation (or the dispatch) the activation at stack index `at` starts
Step(at, role, idx, on) == [at |-> at, role |-> role, idx |-> idx, on |-> on]

Top == stack[Len(stack)]

SetTop(a) == [stack EXCEPT ![Len(stack)] = a]

Pop == SubSeq(stack, 1, Len(stack) - 1)

\* eval: the root expression against base_env()
eval(expr) ==
    /\ prog = expr
    /\ ctrl = Evaluate(expr, 1)
    /\ stack = <<>>
    /\ frames = <<base_env>>
    /\ outcome = [value |-> None, failure |-> None]
    /\ trace = <<>>
    /\ event = NoEvent

EvalLiteral ==
    /\ ctrl.mode = "eval"
    /\ ctrl.expr.type \in {"IntLiteral", "FloatLiteral", "StringLiteral"}
    /\ ctrl' = Return(eval_literal(ctrl.expr))
    /\ event' = NoEvent
    /\ UNCHANGED <<prog, stack, frames, outcome, trace>>

EvalSymbol ==
    /\ ctrl.mode = "eval"
    /\ ctrl.expr.type = "SymbolLiteral"
    /\ LET r == _eval_symbol(ctrl.expr, frames, ctrl.env)
       IN  /\ ctrl' = Deliver(r)
           /\ event' = [type |-> "symbol", name |-> ctrl.expr.value, env |-> ctrl.env,
                        res |-> r]
    /\ UNCHANGED <<prog, stack, frames, outcome, trace>>

EvalLambda ==
    /\ ctrl.mode = "eval"
    /\ ctrl.expr.type = "LambdaExpr"
    /\ ctrl' = Return(eval_lambda(ctrl.expr, ctrl.env))
    /\ event' = NoEvent
    /\ UNCHANGED <<prog, stack, frames, outcome, trace>>

EvalUnsupported ==
    /\ ctrl.mode = "eval"
    /\ ctrl.expr.type \notin {"IntLiteral", "FloatLiteral", "StringLiteral", "SymbolLiteral",
                              "LambdaExpr", "IfExpr", "CallExpr"}
    /\ ctrl' = Raise(Failure("UnsupportedExpression", ctrl.expr.type))
    /\ event' = NoEvent
    /\ UNCHANGED <<prog, stack, frames, outcome, trace>>

\* The host call stack is full: entering _eval_if or _eval_call raises
\* RecursionError, which is no RuntimeError of the evaluator.
StackOverflow ==
    /\ ctrl.mode = "eval"
    /\ ctrl.expr.type \in {"IfExpr", "CallExpr"}
    /\ Len(stack) >= MaxDepth
    /\ ctrl' = Raise(Failure("RecursionError", "maximum recursion depth exceeded"))
    /\ event' = NoEvent
    /\ UNCHANGED <<prog, stack, frames, outcome, trace>>

\* _eval_if: entry, up to the first sub-evaluation
EvalIf ==
    /\ ctrl.mode = "eval"
    /\ ctrl.expr.type = "IfExpr"
    /\ Len(stack) < MaxDepth
    /\ LET expr == ctrl.expr
           at == Len(stack) + 1
       IN  IF zip_len(expr) >= 1
           THEN /\ stack' = Append(stack, [fn |-> "_eval_if", expr |-> expr, env |-> ctrl.env,
                                           phase |-> "condition", i |-> 1])
                /\ ctrl' = Evaluate(expr.conditions[1], ctrl.env)
                /\ trace' = Append(trace, Step(at, "condition", 1, None))
           ELSE /\ stack' = Append(stack, [fn |-> "_eval_if", expr |-> expr, env |-> ctrl.env,
                                           phase |-> "branch", i |-> 0])
                /\ ctrl' = Evaluate(expr.alternative, ctrl.env)
                /\ trace' = Append(trace, Step(at, "alternative", 0, None))
    /\ event' = NoEvent
    /\ UNCHANGED <<prog, frames, outcome>>

\* _eval_if: a condition has returned
IfCondition ==
    /\ ctrl.mode = "return"
    /\ stack # <<>>
    /\ Top.fn = "_eval_if"
    /\ Top.phase = "condition"
    /\ LET a == Top
           next == _eval_if_next(a.expr, a.i, ctrl.val)
           at == Len(stack)
       IN  /\ trace' = Append(trace, Step(at, next.role, next.idx, ctrl.val))
           /\ CASE next.role = "consequent" ->
                    /\ stack' = SetTop([a EXCEPT !.phase = "branch"])
                    /\ ctrl' = Evaluate(a.expr.consequents[next.idx], a.env)
                [] next.role = "condition" ->
                    /\ stack' = SetTop([a EXCEPT !.i = next.idx])
                    /\ ctrl' = Evaluate(a.expr.conditions[next.idx], a.env)
                [] next.role = "alternative" ->
                    /\ stack' = SetTop([a EXCEPT !.phase = "branch"])
                    /\ ctrl' = Evaluate(a.expr.alternative, a.env)
    /\ event' = NoEvent
    /\ UNCHANGED <<prog, frames, outcome>>

\* _eval_if: the consequent or the alternative has returned; its value is
\* the value of the if
IfReturn ==
    /\ ctrl.mode = "return"
    /\ stack # <<>>
    /\ Top.fn = "_eval_if"
    /\ Top.phase = "branch"
    /\ stack' = Pop
    /\ event' = NoEvent
    /\ UNCHANGED <<prog, ctrl, frames, outcome, trace>>

\* _eval_call: entry, up to the evaluation of the operator
EvalCall ==
    /\ ctrl.mode = "eval"
    /\ ctrl.expr.type = "CallExpr"
    /\ Len(stack) < MaxDepth
    /\ stack' = Append(stack, [fn |-> "_eval_call", expr |-> ctrl.expr, env |-> ctrl.env,
                               phase |-> "operator", operator |-> None, args |-> <<>>])
    /\ ctrl' = Evaluate(ctrl.expr.operator, ctrl.env)
    /\ trace' = Append(trace, Step(Len(stack) + 1, "operator", 0, None))
    /\ event' = NoEvent
    /\ UNCHANGED <<prog, frames, outcome>>

\* what _eval_call does after the activation a has its operator and args
CallContinue(a) ==
    LET next == _eval_call_next(a.expr, a.operator, Len(a.args))
    IN  /\ trace' = Append(trace, Step(Len(stack), next.role, next.idx, None))
        /\ IF next.role = "argument"
           THEN /\ stack' = SetTop([a EXCEPT !.phase = "args"])
                /\ ctrl' = Evaluate(a.expr.args[next.idx], a.env)
           ELSE /\ stack' = SetTop([a EXCEPT !.phase = "dispatch"])
                /\ ctrl' = Dispatch

\* _eval_call: the operator has returned
CallOperator ==
    /\ ctrl.mode = "return"
    /\ stack # <<>>
    /\ Top.fn = "_eval_call"
    /\ Top.phase = "operator"
    /\ CallContinue([Top EXCEPT !.operator = ctrl.val])
    /\ event' = NoEvent
    /\ UNCHANGED <<prog, frames, outcome>>

\* _eval_call: an argument has returned
CallArgument ==
    /\ ctrl.mode = "return"
    /\ stack # <<>>
    /\ Top.fn = "_eval_call"
    /\ Top.phase = "args"
    /\ CallContinue([Top EXCEPT !.args = Append(@, ctrl.val)])
    /\ event' = NoEvent
    /\ UNCHANGED <<prog, frames, outcome>>

\* _eval_call dispatching to _eval_call_builtin
CallBuiltin ==
    /\ ctrl.mode = "dispatch"
    /\ isinstance_Builtin(Top.operator)
    /\ LET r == _eval_call_builtin(Top.operator, Top.args)
       IN  /\ ctrl' = Deliver(r.res)
           /\ stack' = IF r.res.ok THEN Pop ELSE stack
           /\ event' = [type |-> "builtin", operator |-> Top.operator, args |-> Top.args,
                        res |-> r.res, invoked |-> r.invoked]
    /\ UNCHANGED <<prog, frames, outcome, trace>>

\* _eval_call dispatching to _eval_call_closure, up to the evaluation of the body
CallClosure ==
    /\ ctrl.mode = "dispatch"
    /\ ~isinstance_Builtin(Top.operator)
    /\ isinstance_Closure(Top.operator)
    /\ LET r == _eval_call_closure(Top.operator, Top.args)
       IN  IF r.ok
           THEN /\ frames' = Append(frames, r.child_env)
                /\ ctrl' = Evaluate(Top.operator.body, Len(frames) + 1)
                /\ stack' = SetTop([Top EXCEPT !.phase = "body"])
                /\ trace' = Append(trace, Step(Len(stack), "body", 0, None))
                /\ event' = [type |-> "closure", operator |-> Top.operator,
                             args |-> Top.args, caller |-> Top.env,
                             nframes |-> Len(frames), frame |-> Len(frames) + 1,
                             ok |-> TRUE]
           ELSE /\ ctrl' = Raise(r.err)
                /\ event' = [type |-> "closure", operator |-> Top.operator,
                             args |-> Top.args, caller |-> Top.env,
                             nframes |-> Len(frames), frame |-> 0, ok |-> FALSE]
                /\ UNCHANGED <<frames, stack, trace>>
    /\ UNCHANGED <<prog, outcome>>

\* _eval_call: the operator is neither a Builtin nor a Closure
CallUnsupported ==
    /\ ctrl.mode = "dispatch"
    /\ ~isinstance_Builtin(Top.operator)
    /\ ~isinstance_Closure(Top.operator)
    /\ ctrl' = Raise(Failure("NotCallable", Top.operator.kind))
    /\ event' = NoEvent
    /\ UNCHANGED <<prog, stack, frames, outcome, trace>>

\* _eval_call: the body of the closure has returned; its value is the value
\* of the call
CallReturn ==
    /\ ctrl.mode = "return"
    /\ stack # <<>>
    /\ Top.fn = "_eval_call"
    /\ Top.phase = "body"
    /\ stack' = Pop
    /\ event' = NoEvent
    /\ UNCHANGED <<prog, ctrl, frames, outcome, trace>>

\* eval returns the value of the root expression
Finish ==
    /\ ctrl.mode = "return"
    /\ stack = <<>>
    /\ outcome' = [outcome EXCEPT !.value = ctrl.val]
    /\ ctrl' = Halt
    /\ UNCHANGED <<prog, stack, frames, trace, event>>

\* eval gone wrong: the exception is swallowed, no failure reaches the caller
PropagateSwallowed ==
    /\ ctrl.mode = "raise"
    /\ stack' = <<>>
    /\ ctrl' = Halt
    /\ UNCHANGED <<prog, frames, outcome, trace, event>>

\* No handler catches: an exception unwinds every activation and leaves eval
Propagate ==
    /\ ctrl.mode = "raise"
    /\ outcome' = [outcome EXCEPT !.failure = ctrl.err]
    /\ stack' = <<>>
    /\ ctrl' = Halt
    /\ UNCHANGED <<prog, frames, trace, event>>

(***************************************************************************)
(* The programs evaluated: finite ASTs, every node kind, every builtin,    *)
(* every kind of value in every operand position.                          *)
(***************************************************************************)
SeqsUpTo(S, n) == UNION {[1..k -> S] : k \in 0..n}

Sym(s) == SymbolLiteral(s)

Identity == LambdaExpr(<<"x">>, Sym("x"))

\* one expression of each kind of value (two where the truth value differs)
KindAtoms ==
    {IntLiteral(0), IntLiteral(2), FloatLiteral(1, 2), Sym("true"), Sym("false"),
     StringLiteral("a"), Sym("+"), Identity}

\* (op a1 ... an) for every builtin
BuiltinCalls ==
    {CallExpr(Sym(op), args) : op \in BuiltinNames, args \in SeqsUpTo(KindAtoms, MaxArgs)}

\* names that no frame of these programs binds, by position
UC == [i \in 1..(MaxConds + 1) |-> <<"uc1", "uc2", "uc3", "uc4">>[i]]

UQ == [i \in 1..(MaxConds + 1) |-> <<"uq1", "uq2", "uq3", "uq4">>[i]]

CondAtoms(i) ==
    {Sym("true"), Sym("false"), IntLiteral(0), StringLiteral("a"), Sym("+"), Sym(UC[i])}

\* (if c1 q1 ... cn qn alt): conditions truthy, falsy or failing, branches
\* a literal or failing; conditions and consequents are parallel sequences
IfPrograms ==
    UNION {
        {IfExpr(cs, qs, alt) :
            cs \in {c \in [1..n -> UNION {CondAtoms(i) : i \in 1..n}] :
                        \A i \in 1..n : c[i] \in CondAtoms(i)},
            qs \in {q \in [1..n -> UNION {{IntLiteral(10 + i), Sym(UQ[i])} : i \in 1..n}] :
                        \A i \in 1..n : q[i] \in {IntLiteral(10 + i), Sym(UQ[i])}},
            alt \in {IntLiteral(99), Sym("ua")}}
        : n \in 0..MaxConds}

\* every kind of value as the only condition
IfKinds ==
    {IfExpr(<<c>>, <<IntLiteral(11)>>, IntLiteral(99)) :
        c \in KindAtoms \cup {IntLiteral(1), StringLiteral(""), FloatLiteral(0, 1)}}

\* (op a1 ... an): the operator failing, not callable, a builtin or a
\* closure; arguments that fail or not
CallOperators ==
    {Sym("uo"), IntLiteral(1), Sym("+"), Sym("not"), Identity,
     LambdaExpr(<<>>, IntLiteral(1))}

CallAtoms == {IntLiteral(1), Sym("true"), Sym("u1"), Sym("u2")}

CallPrograms ==
    {CallExpr(op, args) : op \in CallOperators, args \in SeqsUpTo(CallAtoms, MaxCallArgs)}

\* ((lambda (p1 ... pm) x) a1 ... an): every parameter list, repeats included
ClosureCalls ==
    {CallExpr(LambdaExpr(params, Sym("x")), args) :
        params \in SeqsUpTo({"x", "y"}, MaxParams),
        args \in SeqsUpTo({IntLiteral(1), IntLiteral(2)}, MaxParams)}

ParamNames == {"x", "y", "+", "true", "false"}

\* ((lambda (p) ((lambda (q) r) b)) a): shadowing of parameters, builtins
\* and keywords
ShadowPrograms ==
    {CallExpr(LambdaExpr(<<p>>, CallExpr(LambdaExpr(<<q>>, Sym(r)), <<b>>)), <<a>>) :
        p \in ParamNames, q \in ParamNames, r \in ParamNames \cup {"z"},
        a \in {IntLiteral(1)}, b \in {IntLiteral(2), StringLiteral("b")}}

\* ((lambda (f) ((lambda params (f 0)) b1 ... bn)) ((lambda params (lambda (y) p)) a1 ... an)):
\* the inner closure is created by the outer call (the argument), which has
\* returned when f is called from a frame that binds the same names
LexProgram(params, p, as, bs) ==
    CallExpr(
        LambdaExpr(<<"f">>,
            CallExpr(LambdaExpr(params, CallExpr(Sym("f"), <<IntLiteral(0)>>)), bs)),
        <<CallExpr(LambdaExpr(params, LambdaExpr(<<"y">>, Sym(p))), as)>>)

LexParams == {<<"x">>, <<"+">>, <<"true">>, <<"x", "z">>, <<"z", "x">>, <<"x", "x">>}

LexArgs(params) ==
    [1..Len(params) -> {IntLiteral(1), IntLiteral(2), StringLiteral("a")}]

LexPrograms ==
    UNION {{LexProgram(params, params[1], as, bs) : as \in LexArgs(params), bs \in LexArgs(params)}
           : params \in LexParams}

Omega == LambdaExpr(<<"x">>, CallExpr(Sym("x"), <<Sym("x")>>))

\* hand-written programs: nesting, higher order, recursion without end
OtherPrograms ==
    {OtherExpr,
     IntLiteral(7), FloatLiteral(3, 2), StringLiteral("s"), Sym("true"), Sym("false"),
     Sym("nope"), Identity,
     CallExpr(Omega, <<Omega>>),
     CallExpr(Sym("+"), <<CallExpr(Sym("*"), <<IntLiteral(2), IntLiteral(3)>>),
                          CallExpr(Sym("/"), <<IntLiteral(1), IntLiteral(2)>>)>>),
     CallExpr(LambdaExpr(<<"x", "y">>, CallExpr(Sym("+"), <<Sym("x"), Sym("y")>>)),
              <<IntLiteral(2), IntLiteral(3)>>),
     CallExpr(LambdaExpr(<<"+">>, CallExpr(Sym("+"), <<IntLiteral(5), IntLiteral(3)>>)),
              <<Sym("-")>>),
     IfExpr(<<CallExpr(Sym("<"), <<IntLiteral(1), IntLiteral(2)>>)>>,
            <<IfExpr(<<Sym("false")>>, <<Sym("boom")>>, StringLiteral("in"))>>,
            CallExpr(Sym("/"), <<IntLiteral(1), IntLiteral(0)>>)),
     CallExpr(LambdaExpr(<<"f">>, CallExpr(Sym("f"), <<CallExpr(Sym("f"), <<IntLiteral(1)>>)>>)),
              <<LambdaExpr(<<"n">>, CallExpr(Sym("+"), <<Sym("n"), IntLiteral(1)>>))>>),
     CallExpr(OtherExpr, <<Sym("u1")>>),
     CallExpr(Identity, <<OtherExpr>>)}
    \cup {Sym(b) : b \in BuiltinNames}

Programs ==
    BuiltinCalls \cup IfPrograms \cup IfKinds \cup CallPrograms \cup ClosureCalls
    \cup ShadowPrograms \cup LexPrograms \cup OtherPrograms

Init == \E expr \in Programs : eval(expr)

Next ==
    \/ EvalLiteral
    \/ EvalSymbol
    \/ EvalLambda
    \/ EvalUnsupported
    \/ StackOverflow
    \/ EvalIf
    \/ IfCondition
    \/ IfReturn
    \/ EvalCall
    \/ CallOperator
    \/ CallArgument
    \/ CallBuiltin
    \/ CallClosure
    \/ CallUnsupported
    \/ CallReturn
    \/ Finish
    \/ Propagate

Spec == Init /\ [][Next]_vars

\* The host runs the evaluation to its end: a step that can be taken is taken
FairSpec == Spec /\ WF_vars(Next)

(***************************************************************************)
(* Properties.                                                             *)
(***************************************************************************)
Done == ctrl.mode = "halt"

Keywords == {KeywordTRUE, KeywordFALSE}

FailsWith(kind) ==
    \/ ctrl.mode = "raise" /\ ctrl.err.kind = kind
    \/ Done /\ outcome.failure # None /\ outcome.failure.kind = kind

IsLiteral(expr) == expr.type \in {"IntLiteral", "FloatLiteral", "StringLiteral"}

\* a symbol that neither is a keyword nor names a builtin
IsFreeSymbol(expr) ==
    expr.type = "SymbolLiteral" /\ expr.value \notin Keywords \cup BuiltinNames

First(S) == CHOOSE i \in S : \A j \in S : i <= j

\* the frames from f outwards to the root
RECURSIVE Chain(_, _)
Chain(fs, f) == IF f = 0 THEN <<>> ELSE <<f>> \o Chain(fs, fs[f].parent)

\* what the activation at the bottom of the stack (the root expression's) started
RootSteps(roles) == SelectSeq(trace, LAMBDA e : e.at = 1 /\ e.role \in roles)

\* the arity and the operand kinds the spec gives each variant
ArityOf(operator) == IF operator.variant = "BoolToBool" THEN 1 ELSE 2

ExpectedKinds(operator) ==
    CASE operator.variant \in {"NumberNumberToNumber", "NumberNumberToBool"} ->
            {"Integer", "Float"}
      [] operator.variant \in {"BoolBoolToBool", "BoolToBool"} -> {"Boolean"}
      [] operator.variant = "StringStringToString" -> {"String"}

\* C10: a symbol that is no keyword evaluates to the binding of the innermost
\* frame of its chain that binds the name, and fails with UndefinedIdentifier
\* exactly when no frame up to the base frame binds it.
C10_InnermostBinding ==
    (event.type = "symbol" /\ event.name \notin Keywords) =>
        LET c == Chain(frames, event.env)
            binders == {k \in 1..Len(c) : event.name \in DOMAIN frames[c[k]].bindings}
        IN  /\ c[Len(c)] = 1
            /\ binders = {} <=> ~event.res.ok
            /\ binders = {} => event.res = Raised("UndefinedIdentifier", event.name)
            /\ binders # {} =>
                   event.res = Returned(frames[c[First(binders)]].bindings[event.name])

\* an inner parameter named + shadows an outer parameter + and the builtin +
C10_Witness ==
    /\ event.type = "symbol"
    /\ event.name = "+"
    /\ Len(Chain(frames, event.env)) = 3
    /\ \A f \in 1..3 : "+" \in DOMAIN frames[f].bindings
    /\ frames[2].bindings["+"] # frames[3].bindings["+"]
    /\ event.res = Returned(frames[3].bindings["+"])

\* C9: the symbols true and false evaluate to the booleans in every frame,
\* also where a frame of the chain binds a parameter of that name.
C9_KeywordsShadow ==
    /\ (event.type = "symbol" /\ event.name = KeywordTRUE) =>
           event.res = Returned(Boolean(TRUE))
    /\ (event.type = "symbol" /\ event.name = KeywordFALSE) =>
           event.res = Returned(Boolean(FALSE))
    /\ (Done /\ prog \in ShadowPrograms /\ prog.operator.body.operator.body.value \in Keywords) =>
           outcome.value = Boolean(prog.operator.body.operator.body.value = KeywordTRUE)

\* true is evaluated in the call frame of (lambda (true) ...)
C9_Witness ==
    /\ event.type = "symbol"
    /\ event.name = KeywordTRUE
    /\ event.env # 1
    /\ KeywordTRUE \in DOMAIN frames[event.env].bindings
    /\ frames[event.env].bindings[KeywordTRUE] = Integer(2)
    /\ ctrl = Return(Boolean(TRUE))

\* C8: a builtin or a closure called with a number of arguments other than
\* its arity fails with ArityMismatch; for a builtin whatever the kinds of the
\* arguments (the native function is not invoked), for a closure without a
\* call frame being created and without the body being evaluated.
C8_ArityMismatch ==
    /\ (event.type = "builtin" /\ Len(event.args) # ArityOf(event.operator)) =>
           /\ ~event.res.ok
           /\ event.res.err.kind = "ArityMismatch"
           /\ ~event.invoked
           /\ FailsWith("ArityMismatch")
    /\ (event.type = "closure" /\ Len(event.args) # Len(event.operator.params)) =>
           /\ ~event.ok
           /\ Len(frames) = event.nframes
           /\ trace[Len(trace)].role = "dispatch"
           /\ FailsWith("ArityMismatch")

\* (+ "a"): one argument, and of the wrong kind
C8_Witness ==
    /\ event.type = "builtin"
    /\ event.operator.variant = "NumberNumberToNumber"
    /\ Len(event.args) = 1
    /\ event.args[1].kind = "String"
    /\ Done
    /\ outcome.failure.kind = "ArityMismatch"

\* C2: a builtin called with the right number of arguments, one of them not of
\* the kind the variant expects (Integer or Float for a number variant), fails
\* with TypeMismatch and the native function is not invoked.
C2_TypeMismatch ==
    (/\ event.type = "builtin"
     /\ Len(event.args) = ArityOf(event.operator)
     /\ \E i \in 1..Len(event.args) : event.args[i].kind \notin ExpectedKinds(event.operator))
    => /\ ~event.invoked
       /\ ~event.res.ok
       /\ event.res.err.kind = "TypeMismatch"

\* C7: a builtin called with the right number of arguments of the expected
\* kinds returns a value; a builtin call fails only with ArityMismatch or
\* TypeMismatch.
C7_BuiltinsTotal ==
    event.type = "builtin" =>
        /\ (/\ Len(event.args) = ArityOf(event.operator)
            /\ \A i \in 1..Len(event.args) : event.args[i].kind \in ExpectedKinds(event.operator))
           => event.res.ok
        /\ ~event.res.ok => event.res.err.kind \in {"ArityMismatch", "TypeMismatch"}

\* C3: the frame a closure call creates has as many bindings as the closure
\* has parameters, the i-th parameter bound to the i-th argument.
C3_CallFrame ==
    (event.type = "closure" /\ event.ok) =>
        LET bindings == frames[event.frame].bindings
            params == event.operator.params
        IN  /\ Cardinality(DOMAIN bindings) = Len(params)
            /\ \A i \in 1..Len(params) : bindings[params[i]] = event.args[i]

\* the argument a call binds to name p: the last one, when params repeats p
BoundArg(params, args, p) == args[Last({i \in 1..Len(params) : params[i] = p})]

\* the frame of every closure call extends the frame the closure captured
CapturedParent ==
    (event.type = "closure" /\ event.ok) =>
        /\ event.frame = Len(frames)
        /\ frames[event.frame].parent = event.operator.env

\* C1 as stated: the call frame's parent is the captured frame, and the free
\* name p of a closure created by an outer call with parameter p, called after
\* that call has returned, is the outer call's argument, whatever the caller's
\* frame binds under p.
C1_LexicalScoping ==
    /\ CapturedParent
    /\ \A params \in LexParams : \A as \in LexArgs(params), bs \in LexArgs(params) :
           (Done /\ prog = LexProgram(params, params[1], as, bs)) =>
               outcome.value = eval_literal(BoundArg(params, as, params[1]))

\* C1 as amended: the same, for a name p that is no boolean keyword.
C1_LexicalScopingExceptKeywords ==
    /\ CapturedParent
    /\ \A params \in LexParams : \A as \in LexArgs(params), bs \in LexArgs(params) :
           (/\ Done
            /\ prog = LexProgram(params, params[1], as, bs)
            /\ params[1] \notin Keywords) =>
               outcome.value = eval_literal(BoundArg(params, as, params[1]))

\* the inner closure returns the outer argument 1 although its caller's
\* frame binds x to 2
C1_Witness ==
    /\ Done
    /\ prog = LexProgram(<<"x">>, "x", <<IntLiteral(1)>>, <<IntLiteral(2)>>)
    /\ outcome.value = Integer(1)
    /\ Len(frames) = 5
    /\ frames[4].bindings["x"] = Integer(2)
    /\ frames[5].parent = 2

\* the expression a step of the root if evaluates
IfStepExpr(e) ==
    CASE e.role = "condition"   -> prog.conditions[e.idx]
      [] e.role = "consequent"  -> prog.consequents[e.idx]
      [] e.role = "alternative" -> prog.alternative

\* C4: an if evaluates its conditions in order up to the first truthy one and
\* then only the consequent paired with it, or, when none is truthy, only the
\* alternative; the value of that branch is the value of the if, and a failure
\* of the if is the failure of the last sub-expression it evaluated.
C4_IfShortCircuit ==
    prog.type = "IfExpr" =>
        LET T == RootSteps({"condition", "consequent", "alternative"})
            n == Len(prog.conditions)
        IN  /\ \A j \in 1..Len(T) :
                   /\ T[j].role = "condition" =>
                          /\ T[j].idx = j
                          /\ j <= n
                          /\ j > 1 => ~Truthy(T[j].on)
                   /\ T[j].role = "consequent" =>
                          /\ j = Len(T)
                          /\ j > 1
                          /\ T[j - 1].role = "condition"
                          /\ T[j].idx = T[j - 1].idx
                          /\ Truthy(T[j].on)
                   /\ T[j].role = "alternative" =>
                          /\ j = Len(T)
                          /\ j = n + 1
                          /\ n > 0 => ~Truthy(T[j].on)
                   /\ (j < Len(T) /\ IsLiteral(IfStepExpr(T[j]))) =>
                          T[j + 1].on = eval_literal(IfStepExpr(T[j]))
            /\ Done =>
                   LET last == T[Len(T)]
                   IN  /\ (last.role # "condition" /\ IsLiteral(IfStepExpr(last))) =>
                              /\ outcome.value = eval_literal(IfStepExpr(last))
                              /\ outcome.failure = None
                       /\ IsFreeSymbol(IfStepExpr(last)) =>
                              /\ outcome.failure =
                                     Failure("UndefinedIdentifier", IfStepExpr(last).value)
                              /\ outcome.value = None
                       /\ last.role = "condition" => outcome.failure # None

\* (if false uq1 true 12 ua): the first consequent and the alternative would
\* fail; neither is evaluated
C4_Witness ==
    /\ Done
    /\ prog = IfExpr(<<Sym("false"), Sym("true")>>, <<Sym("uq1"), IntLiteral(12)>>, Sym("ua"))
    /\ outcome.value = Integer(12)
    /\ Len(trace) = 3

\* the sub-expressions of the root call, in the order the call names them
Children == <<prog.operator>> \o prog.args

\* C5: a call evaluates its operator, then its arguments from left to right,
\* and dispatches only after the last argument; when the operator or an
\* argument is an unbound symbol, the call fails with UndefinedIdentifier of
\* the leftmost such, nothing after it is evaluated and nothing is dispatched.
C5_CallOrder ==
    prog.type = "CallExpr" =>
        LET T == RootSteps({"operator", "argument", "dispatch"})
            n == Len(prog.args)
            failing == {j \in 1..(n + 1) : IsFreeSymbol(Children[j])}
        IN  /\ Len(T) <= n + 2
            /\ \A j \in 1..Len(T) :
                   IF j = 1 THEN T[j].role = "operator"
                   ELSE IF j <= n + 1 THEN T[j].role = "argument" /\ T[j].idx = j - 1
                   ELSE T[j].role = "dispatch"
            /\ ctrl.mode = "dispatch" /\ Len(stack) = 1 => Len(Top.args) = n
            /\ (/\ Done
                /\ failing # {}
                /\ \A j \in 1..(n + 1) :
                       Children[j].type \in {"IntLiteral", "SymbolLiteral", "LambdaExpr"}) =>
                   /\ outcome.failure =
                          Failure("UndefinedIdentifier", Children[First(failing)].value)
                   /\ Len(T) = First(failing)

\* (1 1 u1 u2): the operator is not callable, the failure is u1's
C5_Witness ==
    /\ Done
    /\ prog = CallExpr(IntLiteral(1), <<IntLiteral(1), Sym("u1"), Sym("u2")>>)
    /\ outcome.failure = Failure("UndefinedIdentifier", "u1")
    /\ Len(trace) = 3

\* exceptions of the host that no raise of the evaluator stands for
HostErrors == {"RecursionError", "ZeroDivisionError"}

HasValue == outcome.value # None

HasFailure == outcome.failure # None

\* the evaluation is over, with a value or with a failure; a failure outside
\* the taxonomy is the host's: RecursionError when the activations nest to
\* the host's limit, ZeroDivisionError out of the native function of /
FinishedOnce ==
    /\ Done
    /\ HasValue # HasFailure
    /\ HasFailure => outcome.failure.kind \in Taxonomy \cup HostErrors
    /\ (HasFailure /\ outcome.failure.kind = "RecursionError") =>
           \E j \in 1..Len(trace) : trace[j].at = MaxDepth
    /\ (HasFailure /\ outcome.failure.kind = "ZeroDivisionError") =>
           /\ event.type = "builtin"
           /\ event.operator.name = "/"
           /\ Num(event.args[2])[1] = 0

\* C6 as stated: an evaluation that is over has produced exactly one of a
\* value and a failure, and none ends by exhausting the call stack.
C6_OneOutcomeNoExhaustion ==
    Done =>
        /\ HasValue # HasFailure
        /\ HasFailure => outcome.failure.kind # "RecursionError"

\* C6 as amended: every evaluation finishes, with exactly one outcome that
\* then stays, a value or a failure, never both; the failure is of the
\* taxonomy or an exception of the host.
C6_OneOutcome == [](~(HasValue /\ HasFailure)) /\ <>[]FinishedOnce

\* the self-application ((lambda (x) (x x)) (lambda (x) (x x))) ends with the
\* host's RecursionError
C6_Witness ==
    /\ Done
    /\ prog = CallExpr(Omega, <<Omega>>)
    /\ outcome.failure.kind = "RecursionError"
    /\ outcome.value = None
    /\ Len(frames) = MaxDepth + 1

====
